---- MODULE Spec2Model ----
(***************************************************************************)
(* Access-controlled resource services of the NestJS/PostgreSQL backend:   *)
(* Accounts (users), Roles, Posts and Projects.  Every service method is   *)
(* modelled step by step, one action per database round trip (await), so   *)
(* that concurrent requests interleave exactly where the code yields.      *)
(* The relational store is modelled with its unique indexes and foreign    *)
(* keys as declared in the migrations.                                     *)
(***************************************************************************)
EXTENDS Integers, FiniteSets, Sequences, TLC

VARIABLES users, roles, userRoles, posts, projects, nextId, reqs, resp, svc

vars == <<users, roles, userRoles, posts, projects, nextId, reqs, resp, svc>>

(***************************************************************************)
(* Bounds                                                                  *)
(***************************************************************************)
MaxPostId == 2
MaxProjectId == 2
MaxUserId == 3
MaxRoleId == 2

Slots == {"r1", "r2"}
RoleSlots == {"r1", "r2", "r3"}
Slugs == {"hello", "world"}
NoSlug == "undefined"
Usernames == {"alice", "bob"}
Emails == {"alice@x", "bob@x"}
NoValue == "undefined"
Passwords == {"pw1"}
RoleNames == {"ADMIN", "EDITOR"}

(***************************************************************************)
(* Principals                                                              *)
(***************************************************************************)
\* Names of the roles joined to account u in the store (_user_role).
RoleNamesOf(u) == {r.name : r \in {x \in roles : <<u, x.id>> \in userRoles}}

\* The principal attached to a request: account id plus its roles.
ReqUser(u) == [id |-> u, roles |-> RoleNamesOf(u)]

NoUser == [id |-> 0, roles |-> {}]

\* reqUser.roles.some((r) => r.name === 'ADMIN')
isUserAdmin(reqUser) == \E r \in reqUser.roles : r = "ADMIN"

(***************************************************************************)
(* Requests in flight and the last response                                *)
(***************************************************************************)
\* No Authorization header.
NoToken == [kind |-> "missing", userId |-> 0]

\* No list query.
NoQuery == [field |-> {}, include |-> FALSE, ownerId |-> {},
            withPagination |-> FALSE, page |-> 0, pageSize |-> 0,
            sortBy |-> NoValue, sortOrder |-> NoValue]

\* wasAdmin: whether the account of the token held ADMIN in the store when
\* the request came in.  query, rows and total: a list query and what its
\* findMany and its count have returned so far.
Idle == [op |-> "idle", pc |-> "idle", reqUser |-> NoUser, id |-> 0,
         slug |-> NoSlug, username |-> NoValue, email |-> NoValue,
         name |-> NoValue, entity |-> {}, token |-> NoToken,
         wasAdmin |-> FALSE, query |-> NoQuery, rows |-> <<>>, total |-> 0]

\* The outcome of the request that completed last: the HTTP status, who
\* asked, what the target was when the request looked at it, and the
\* Account fields of the returned representation.
\* The list part of a response: the query as it was asked, the skip and
\* take handed to findMany, and total, page, pageSize, pageCount and the ids
\* of the items of the body.
NoAsked == [ownerId |-> {}, sortBy |-> NoValue, sortOrder |-> NoValue,
            withPagination |-> FALSE, page |-> 0, pageSize |-> 0]

NoList == [asked |-> NoAsked, skip |-> 0, take |-> 0, total |-> 0,
           page |-> 0, pageSize |-> 0, pageCount |-> 0, items |-> <<>>]

NoResp == [op |-> "none", status |-> 0, actor |-> 0, admin |-> FALSE,
           id |-> 0, found |-> FALSE, owner |-> 0, name |-> NoValue,
           body |-> {}, list |-> NoList]

Respond(op, status, reqUser, id, entity, owner, name, body) ==
    [op |-> op, status |-> status, actor |-> reqUser.id,
     admin |-> isUserAdmin(reqUser), id |-> id, found |-> entity # {},
     owner |-> owner, name |-> name, body |-> body, list |-> NoList]

InFlight(op) == Cardinality({r \in DOMAIN reqs : reqs[r].op = op})

(***************************************************************************)
(* Store: Prisma reads and the constraints of the schema                   *)
(***************************************************************************)
\* findUnique({ where: { id } }) as a set of at most one row
findUnique(table, id) == {e \in table : e.id = id}

TheRow(rows) == CHOOSE e \in rows : TRUE

\* The index is missing: every (slug, authorId) is accepted.
PostsSlugAuthorIdKeyDropped(id, slug, authorId) == TRUE

\* posts_slug_authorId_key: no other row holds (slug, authorId)
PostsSlugAuthorIdKey(id, slug, authorId) ==
    ~\E p \in posts : p.id # id /\ p.slug = slug /\ p.authorId = authorId

\* projects_slug_userId_key: no other row holds (slug, userId)
ProjectsSlugUserIdKey(id, slug, userId) ==
    ~\E p \in projects : p.id # id /\ p.slug = slug /\ p.userId = userId

(***************************************************************************)
(* PostsService                                                            *)
(***************************************************************************)
\* The look-up without the owner: any Post with the slug counts.
PostsFindFirstAnyOwner(slug, authorId) == {p \in posts : p.slug = slug}

\* findFirst({ where: { slug, authorId } })
PostsFindFirst(slug, authorId) ==
    {p \in posts : p.slug = slug /\ p.authorId = authorId}

\* create: look for an existing (slug, authorId); 400 if there is one.
PostsCreateFind(r, u, slug) ==
    /\ reqs[r].op = "idle"
    /\ LET reqUser == ReqUser(u)
           existingSlug == PostsFindFirst(slug, reqUser.id)
       IN IF existingSlug # {}
          THEN /\ resp' = Respond("posts.create", 400, reqUser, 0, {}, 0,
                                  slug, {})
               /\ UNCHANGED reqs
          ELSE /\ nextId.post + InFlight("posts.create") <= MaxPostId
               /\ reqs' = [reqs EXCEPT ![r] =
                    [Idle EXCEPT !.op = "posts.create", !.pc = "create",
                                 !.reqUser = reqUser, !.slug = slug]]
               /\ UNCHANGED resp
    /\ UNCHANGED <<svc, users, roles, userRoles, posts, projects, nextId>>

\* create: the insert; the unique index rejects a duplicate (P2002).
PostsCreateInsert(r) ==
    /\ reqs[r].op = "posts.create" /\ reqs[r].pc = "create"
    /\ LET q == reqs[r]
           row == [id |-> nextId.post, slug |-> q.slug,
                   authorId |-> q.reqUser.id]
       IN IF PostsSlugAuthorIdKey(0, q.slug, q.reqUser.id)
          THEN /\ posts' = posts \cup {row}
               /\ nextId' = [nextId EXCEPT !.post = @ + 1]
               /\ resp' = Respond("posts.create", 201, q.reqUser, row.id,
                                  {row}, row.authorId, NoValue, {})
          ELSE /\ resp' = Respond("posts.create", 500, q.reqUser, 0, {}, 0,
                                  NoValue, {})
               /\ UNCHANGED <<posts, nextId>>
    /\ reqs' = [reqs EXCEPT ![r] = Idle]
    /\ UNCHANGED <<svc, users, roles, userRoles, projects>>

\* The check with an exemption for ADMIN, as deleteById has it.
PostsUpdateDeniedUnlessAdmin(reqUser, entity) ==
    reqUser.id # entity.authorId /\ ~isUserAdmin(reqUser)

\* reqUser.id !== entity.authorId
PostsUpdateDenied(reqUser, entity) == reqUser.id # entity.authorId

\* The check for every slug in the payload, the current one included.
PostsSlugGiven(slug, entity) == slug # NoSlug

\* slug && slug !== entity.slug
PostsSlugChanges(slug, entity) == slug # NoSlug /\ slug # entity.slug

\* updateById: look the record up, 404, then the ownership check, 403.
PostsUpdateFind(r, u, id, slug) ==
    /\ reqs[r].op = "idle"
    /\ LET reqUser == ReqUser(u)
           rows == findUnique(posts, id)
       IN IF rows = {}
          THEN /\ resp' = Respond("posts.updateById", 404, reqUser, id, {},
                                  0, NoValue, {})
               /\ UNCHANGED reqs
          ELSE LET entity == TheRow(rows) IN
               IF PostsUpdateDenied(reqUser, entity)
               THEN /\ resp' = Respond("posts.updateById", 403, reqUser, id,
                                       rows, entity.authorId, NoValue, {})
                    /\ UNCHANGED reqs
               ELSE /\ reqs' = [reqs EXCEPT ![r] =
                         [Idle EXCEPT
                            !.op = "posts.updateById",
                            !.pc = IF PostsSlugChanges(slug, entity)
                                   THEN "findFirst" ELSE "update",
                            !.reqUser = reqUser, !.id = id, !.slug = slug,
                            !.entity = rows]]
                    /\ UNCHANGED resp
    /\ UNCHANGED <<svc, users, roles, userRoles, posts, projects, nextId>>

\* updateById: the slug changes, so look for the new (slug, authorId).
PostsUpdateCheckSlug(r) ==
    /\ reqs[r].op = "posts.updateById" /\ reqs[r].pc = "findFirst"
    /\ LET q == reqs[r]
           entity == TheRow(q.entity)
           existingSlug == PostsFindFirst(q.slug, entity.authorId)
       IN IF existingSlug # {}
          THEN /\ resp' = Respond("posts.updateById", 400, q.reqUser, q.id,
                                  q.entity, entity.authorId, q.slug, {})
               /\ reqs' = [reqs EXCEPT ![r] = Idle]
          ELSE /\ reqs' = [reqs EXCEPT ![r].pc = "update"]
               /\ UNCHANGED resp
    /\ UNCHANGED <<svc, users, roles, userRoles, posts, projects, nextId>>

\* updateById: the update; P2025 if the row is gone, P2002 on the index.
PostsUpdateWrite(r) ==
    /\ reqs[r].op = "posts.updateById" /\ reqs[r].pc = "update"
    /\ LET q == reqs[r]
           entity == TheRow(q.entity)
           rows == findUnique(posts, q.id)
           slug == IF q.slug # NoSlug THEN q.slug ELSE entity.slug
       IN IF rows # {} /\ PostsSlugAuthorIdKey(q.id, slug,
                                               entity.authorId)
          THEN /\ posts' = (posts \ rows)
                      \cup {[TheRow(rows) EXCEPT !.slug = slug]}
               /\ resp' = Respond("posts.updateById", 200, q.reqUser, q.id,
                                  q.entity, entity.authorId, NoValue, {})
          ELSE /\ resp' = Respond("posts.updateById", 500, q.reqUser, q.id,
                                  q.entity, entity.authorId, NoValue, {})
               /\ UNCHANGED posts
    /\ reqs' = [reqs EXCEPT ![r] = Idle]
    /\ UNCHANGED <<svc, users, roles, userRoles, projects, nextId>>

\* The check without the exemption for ADMIN, as updateById has it.
PostsDeleteDeniedOwnerOnly(reqUser, entity) == reqUser.id # entity.authorId

\* reqUser.id !== entity.authorId && !isUserAdmin
PostsDeleteDenied(reqUser, entity) ==
    reqUser.id # entity.authorId /\ ~isUserAdmin(reqUser)

\* deleteById: look the record up, 404, then owner-or-admin, 403.
PostsDeleteById(r, reqUser, id) ==
    /\ LET rows == findUnique(posts, id)
       IN IF rows = {}
          THEN /\ resp' = Respond("posts.deleteById", 404, reqUser, id, {},
                                  0, NoValue, {})
               /\ reqs' = [reqs EXCEPT ![r] = Idle]
          ELSE LET entity == TheRow(rows) IN
               IF PostsDeleteDenied(reqUser, entity)
               THEN /\ resp' = Respond("posts.deleteById", 403, reqUser, id,
                                       rows, entity.authorId, NoValue, {})
                    /\ reqs' = [reqs EXCEPT ![r] = Idle]
               ELSE /\ reqs' = [reqs EXCEPT ![r] =
                         [@ EXCEPT !.op = "posts.deleteById",
                                   !.pc = "delete", !.reqUser = reqUser,
                                   !.id = id, !.entity = rows]]
                    /\ UNCHANGED resp
    /\ UNCHANGED <<svc, users, roles, userRoles, posts, projects, nextId>>

\* deleteById called with a principal of the store.
PostsDeleteFind(r, u, id) ==
    /\ reqs[r].op = "idle"
    /\ PostsDeleteById(r, ReqUser(u), id)

\* deleteById called by the handler with req.user.
PostsDeleteCall(r) ==
    /\ reqs[r].op = "posts.deleteById" /\ reqs[r].pc = "find"
    /\ PostsDeleteById(r, reqs[r].reqUser, reqs[r].id)

\* deleteById: the delete; P2025 if the row is gone.
PostsDeleteWrite(r) ==
    /\ reqs[r].op = "posts.deleteById" /\ reqs[r].pc = "delete"
    /\ LET q == reqs[r]
           entity == TheRow(q.entity)
           rows == findUnique(posts, q.id)
       IN IF rows # {}
          THEN /\ posts' = posts \ rows
               /\ resp' = Respond("posts.deleteById", 200, q.reqUser, q.id,
                                  q.entity, entity.authorId, NoValue, {})
          ELSE /\ resp' = Respond("posts.deleteById", 500, q.reqUser, q.id,
                                  q.entity, entity.authorId, NoValue, {})
               /\ UNCHANGED posts
    /\ reqs' = [reqs EXCEPT ![r] = Idle]
    /\ UNCHANGED <<svc, users, roles, userRoles, projects, nextId>>

(***************************************************************************)
(* ProjectsService                                                            *)
(***************************************************************************)
\* findFirst({ where: { slug, userId } })
ProjectsFindFirst(slug, userId) ==
    {p \in projects : p.slug = slug /\ p.userId = userId}

\* create: look for an existing (slug, userId); 400 if there is one.
ProjectsCreateFind(r, u, slug) ==
    /\ reqs[r].op = "idle"
    /\ LET reqUser == ReqUser(u)
           existingSlug == ProjectsFindFirst(slug, reqUser.id)
       IN IF existingSlug # {}
          THEN /\ resp' = Respond("projects.create", 400, reqUser, 0, {}, 0,
                                  slug, {})
               /\ UNCHANGED reqs
          ELSE /\ nextId.project + InFlight("projects.create") <= MaxProjectId
               /\ reqs' = [reqs EXCEPT ![r] =
                    [Idle EXCEPT !.op = "projects.create", !.pc = "create",
                                 !.reqUser = reqUser, !.slug = slug]]
               /\ UNCHANGED resp
    /\ UNCHANGED <<svc, users, roles, userRoles, posts, projects, nextId>>

\* create: the insert; the unique index rejects a duplicate (P2002).
ProjectsCreateInsert(r) ==
    /\ reqs[r].op = "projects.create" /\ reqs[r].pc = "create"
    /\ LET q == reqs[r]
           row == [id |-> nextId.project, slug |-> q.slug,
                   userId |-> q.reqUser.id]
       IN IF ProjectsSlugUserIdKey(0, q.slug, q.reqUser.id)
          THEN /\ projects' = projects \cup {row}
               /\ nextId' = [nextId EXCEPT !.project = @ + 1]
               /\ resp' = Respond("projects.create", 201, q.reqUser, row.id,
                                  {row}, row.userId, NoValue, {})
          ELSE /\ resp' = Respond("projects.create", 500, q.reqUser, 0, {}, 0,
                                  NoValue, {})
               /\ UNCHANGED <<projects, nextId>>
    /\ reqs' = [reqs EXCEPT ![r] = Idle]
    /\ UNCHANGED <<svc, users, roles, userRoles, posts>>

\* entity.userId !== userId
ProjectsUpdateDenied(reqUser, entity) == entity.userId # reqUser.id

\* slug && slug !== entity.slug
ProjectsSlugChanges(slug, entity) == slug # NoSlug /\ slug # entity.slug

\* updateById: look the record up, 404, then the ownership check, 403.
ProjectsUpdateFind(r, u, id, slug) ==
    /\ reqs[r].op = "idle"
    /\ LET reqUser == ReqUser(u)
           rows == findUnique(projects, id)
       IN IF rows = {}
          THEN /\ resp' = Respond("projects.updateById", 404, reqUser, id, {},
                                  0, NoValue, {})
               /\ UNCHANGED reqs
          ELSE LET entity == TheRow(rows) IN
               IF ProjectsUpdateDenied(reqUser, entity)
               THEN /\ resp' = Respond("projects.updateById", 403, reqUser, id,
                                       rows, entity.userId, NoValue, {})
                    /\ UNCHANGED reqs
               ELSE /\ reqs' = [reqs EXCEPT ![r] =
                         [Idle EXCEPT
                            !.op = "projects.updateById",
                            !.pc = IF ProjectsSlugChanges(slug, entity)
                                   THEN "findFirst" ELSE "update",
                            !.reqUser = reqUser, !.id = id, !.slug = slug,
                            !.entity = rows]]
                    /\ UNCHANGED resp
    /\ UNCHANGED <<svc, users, roles, userRoles, posts, projects, nextId>>

\* updateById: the slug changes, so look for the new (slug, userId).
ProjectsUpdateCheckSlug(r) ==
    /\ reqs[r].op = "projects.updateById" /\ reqs[r].pc = "findFirst"
    /\ LET q == reqs[r]
           entity == TheRow(q.entity)
           existingSlug == ProjectsFindFirst(q.slug, entity.userId)
       IN IF existingSlug # {}
          THEN /\ resp' = Respond("projects.updateById", 400, q.reqUser, q.id,
                                  q.entity, entity.userId, q.slug, {})
               /\ reqs' = [reqs EXCEPT ![r] = Idle]
          ELSE /\ reqs' = [reqs EXCEPT ![r].pc = "update"]
               /\ UNCHANGED resp
    /\ UNCHANGED <<svc, users, roles, userRoles, posts, projects, nextId>>

\* updateById: the update; P2025 if the row is gone, P2002 on the index.
ProjectsUpdateWrite(r) ==
    /\ reqs[r].op = "projects.updateById" /\ reqs[r].pc = "update"
    /\ LET q == reqs[r]
           entity == TheRow(q.entity)
           rows == findUnique(projects, q.id)
           slug == IF q.slug # NoSlug THEN q.slug ELSE entity.slug
       IN IF rows # {} /\ ProjectsSlugUserIdKey(q.id, slug,
                                               entity.userId)
          THEN /\ projects' = (projects \ rows)
                      \cup {[TheRow(rows) EXCEPT !.slug = slug]}
               /\ resp' = Respond("projects.updateById", 200, q.reqUser, q.id,
                                  q.entity, entity.userId, NoValue, {})
          ELSE /\ resp' = Respond("projects.updateById", 500, q.reqUser, q.id,
                                  q.entity, entity.userId, NoValue, {})
               /\ UNCHANGED projects
    /\ reqs' = [reqs EXCEPT ![r] = Idle]
    /\ UNCHANGED <<svc, users, roles, userRoles, posts, nextId>>

\* entity.userId !== user.id && !isUserAdmin
ProjectsDeleteDenied(reqUser, entity) ==
    entity.userId # reqUser.id /\ ~isUserAdmin(reqUser)

\* deleteById: look the record up, 404, then owner-or-admin, 403.
ProjectsDeleteFind(r, u, id) ==
    /\ reqs[r].op = "idle"
    /\ LET reqUser == ReqUser(u)
           rows == findUnique(projects, id)
       IN IF rows = {}
          THEN /\ resp' = Respond("projects.deleteById", 404, reqUser, id, {},
                                  0, NoValue, {})
               /\ UNCHANGED reqs
          ELSE LET entity == TheRow(rows) IN
               IF ProjectsDeleteDenied(reqUser, entity)
               THEN /\ resp' = Respond("projects.deleteById", 403, reqUser, id,
                                       rows, entity.userId, NoValue, {})
                    /\ UNCHANGED reqs
               ELSE /\ reqs' = [reqs EXCEPT ![r] =
                         [Idle EXCEPT !.op = "projects.deleteById",
                                      !.pc = "delete", !.reqUser = reqUser,
                                      !.id = id, !.entity = rows]]
                    /\ UNCHANGED resp
    /\ UNCHANGED <<svc, users, roles, userRoles, posts, projects, nextId>>

\* deleteById: the delete; P2025 if the row is gone.
ProjectsDeleteWrite(r) ==
    /\ reqs[r].op = "projects.deleteById" /\ reqs[r].pc = "delete"
    /\ LET q == reqs[r]
           entity == TheRow(q.entity)
           rows == findUnique(projects, q.id)
       IN IF rows # {}
          THEN /\ projects' = projects \ rows
               /\ resp' = Respond("projects.deleteById", 200, q.reqUser, q.id,
                                  q.entity, entity.userId, NoValue, {})
          ELSE /\ resp' = Respond("projects.deleteById", 500, q.reqUser, q.id,
                                  q.entity, entity.userId, NoValue, {})
               /\ UNCHANGED projects
    /\ reqs' = [reqs EXCEPT ![r] = Idle]
    /\ UNCHANGED <<svc, users, roles, userRoles, posts, nextId>>

(***************************************************************************)
(* RolesGuard                                                              *)
(***************************************************************************)
\* The guard lets every request through.
canActivateAlways(required, reqUser) == TRUE

\* canActivate: re-read the account with its roles; false if it is gone,
\* else dbUser.roles.some((role) => roles.includes(role.name)).
canActivate(required, reqUser) ==
    /\ findUnique(users, reqUser.id) # {}
    /\ \E name \in RoleNamesOf(reqUser.id) : name \in required

(***************************************************************************)
(* RolesService behind RolesController (@Roles('ADMIN') on every route)    *)
(***************************************************************************)
\* roles_name_key: no other row holds the name
RolesNameKey(id, name) == ~\E x \in roles : x.id # id /\ x.name = name

RoleNameIn(table, id) ==
    IF findUnique(table, id) = {} THEN NoValue
    ELSE TheRow(findUnique(table, id)).name

\* POST /roles: the guard.
RolesCreateGuard(r, u, name) ==
    /\ reqs[r].op = "idle"
    /\ nextId.role + InFlight("roles.create") <= MaxRoleId
    /\ LET reqUser == ReqUser(u)
       IN IF ~canActivate({"ADMIN"}, reqUser)
          THEN /\ resp' = Respond("roles.create", 403, reqUser, 0, {}, 0,
                                  name, {})
               /\ UNCHANGED reqs
          ELSE /\ reqs' = [reqs EXCEPT ![r] =
                    [Idle EXCEPT !.op = "roles.create", !.pc = "create",
                                 !.reqUser = reqUser, !.name = name]]
               /\ UNCHANGED resp
    /\ UNCHANGED <<svc, users, roles, userRoles, posts, projects, nextId>>

\* create: the insert; the unique index rejects a duplicate name (P2002).
RolesCreateInsert(r) ==
    /\ reqs[r].op = "roles.create" /\ reqs[r].pc = "create"
    /\ LET q == reqs[r]
           row == [id |-> nextId.role, name |-> q.name]
       IN IF RolesNameKey(0, q.name)
          THEN /\ roles' = roles \cup {row}
               /\ nextId' = [nextId EXCEPT !.role = @ + 1]
               /\ resp' = Respond("roles.create", 201, q.reqUser, row.id,
                                  {row}, 0, q.name, {})
          ELSE /\ resp' = Respond("roles.create", 500, q.reqUser, 0, {}, 0,
                                  q.name, {})
               /\ UNCHANGED <<roles, nextId>>
    /\ reqs' = [reqs EXCEPT ![r] = Idle]
    /\ UNCHANGED <<svc, users, userRoles, posts, projects>>

\* PATCH /roles/id/:id: the guard.
RolesUpdateGuard(r, u, id, name) ==
    /\ reqs[r].op = "idle"
    /\ LET reqUser == ReqUser(u)
       IN IF ~canActivate({"ADMIN"}, reqUser)
          THEN /\ resp' = Respond("roles.updateById", 403, reqUser, id,
                                  findUnique(roles, id), 0,
                                  RoleNameIn(roles, id), {})
               /\ UNCHANGED reqs
          ELSE /\ reqs' = [reqs EXCEPT ![r] =
                    [Idle EXCEPT !.op = "roles.updateById", !.pc = "find",
                                 !.reqUser = reqUser, !.id = id,
                                 !.name = name]]
               /\ UNCHANGED resp
    /\ UNCHANGED <<svc, users, roles, userRoles, posts, projects, nextId>>

\* updateById: look the role up, 404.
RolesUpdateFind(r) ==
    /\ reqs[r].op = "roles.updateById" /\ reqs[r].pc = "find"
    /\ LET q == reqs[r]
           rows == findUnique(roles, q.id)
       IN IF rows = {}
          THEN /\ resp' = Respond("roles.updateById", 404, q.reqUser, q.id,
                                  {}, 0, NoValue, {})
               /\ reqs' = [reqs EXCEPT ![r] = Idle]
          ELSE /\ reqs' = [reqs EXCEPT ![r].pc = "update",
                                       ![r].entity = rows]
               /\ UNCHANGED resp
    /\ UNCHANGED <<svc, users, roles, userRoles, posts, projects, nextId>>

\* The name a role ends up with: data is the payload as it came.
RolesUpdatedName(current, name) ==
    IF name = NoValue THEN current.name ELSE name

\* updateById: the update; P2025 if the row is gone, P2002 on the index.
RolesUpdateWrite(r) ==
    /\ reqs[r].op = "roles.updateById" /\ reqs[r].pc = "update"
    /\ LET q == reqs[r]
           entity == TheRow(q.entity)
           rows == findUnique(roles, q.id)
       IN IF rows # {} /\ (q.name = NoValue \/ RolesNameKey(q.id, q.name))
          THEN /\ roles' = (roles \ rows) \cup
                      {[TheRow(rows) EXCEPT
                          !.name = RolesUpdatedName(TheRow(rows), q.name)]}
               /\ resp' = Respond("roles.updateById", 200, q.reqUser, q.id,
                                  q.entity, 0, entity.name, {})
          ELSE /\ resp' = Respond("roles.updateById", 500, q.reqUser, q.id,
                                  q.entity, 0, entity.name, {})
               /\ UNCHANGED roles
    /\ reqs' = [reqs EXCEPT ![r] = Idle]
    /\ UNCHANGED <<svc, users, userRoles, posts, projects, nextId>>

\* DELETE /roles/id/:id: the guard.
RolesDeleteGuard(r, u, id) ==
    /\ reqs[r].op = "idle"
    /\ LET reqUser == ReqUser(u)
       IN IF ~canActivate({"ADMIN"}, reqUser)
          THEN /\ resp' = Respond("roles.deleteById", 403, reqUser, id,
                                  findUnique(roles, id), 0,
                                  RoleNameIn(roles, id), {})
               /\ UNCHANGED reqs
          ELSE /\ reqs' = [reqs EXCEPT ![r] =
                    [Idle EXCEPT !.op = "roles.deleteById", !.pc = "find",
                                 !.reqUser = reqUser, !.id = id]]
               /\ UNCHANGED resp
    /\ UNCHANGED <<svc, users, roles, userRoles, posts, projects, nextId>>

\* entity.name === 'ADMIN'
RolesDeleteDenied(entity) == entity.name = "ADMIN"

\* deleteById: look the role up, 404, then the ADMIN check, 403.
RolesDeleteFind(r) ==
    /\ reqs[r].op = "roles.deleteById" /\ reqs[r].pc = "find"
    /\ LET q == reqs[r]
           rows == findUnique(roles, q.id)
       IN IF rows = {}
          THEN /\ resp' = Respond("roles.deleteById", 404, q.reqUser, q.id,
                                  {}, 0, NoValue, {})
               /\ reqs' = [reqs EXCEPT ![r] = Idle]
          ELSE IF RolesDeleteDenied(TheRow(rows))
               THEN /\ resp' = Respond("roles.deleteById", 403, q.reqUser,
                                       q.id, rows, 0, TheRow(rows).name, {})
                    /\ reqs' = [reqs EXCEPT ![r] = Idle]
               ELSE /\ reqs' = [reqs EXCEPT ![r].pc = "delete",
                                            ![r].entity = rows]
                    /\ UNCHANGED resp
    /\ UNCHANGED <<svc, users, roles, userRoles, posts, projects, nextId>>

\* deleteById: the delete; P2025 if the row is gone; _user_role cascades.
RolesDeleteWrite(r) ==
    /\ reqs[r].op = "roles.deleteById" /\ reqs[r].pc = "delete"
    /\ LET q == reqs[r]
           entity == TheRow(q.entity)
           rows == findUnique(roles, q.id)
       IN IF rows # {}
          THEN /\ roles' = roles \ rows
               /\ userRoles' = {ur \in userRoles : ur[2] # q.id}
               /\ resp' = Respond("roles.deleteById", 200, q.reqUser, q.id,
                                  q.entity, 0, entity.name, {})
          ELSE /\ resp' = Respond("roles.deleteById", 500, q.reqUser, q.id,
                                  q.entity, 0, entity.name, {})
               /\ UNCHANGED <<roles, userRoles>>
    /\ reqs' = [reqs EXCEPT ![r] = Idle]
    /\ UNCHANGED <<svc, users, posts, projects, nextId>>

(***************************************************************************)
(* UsersService behind UsersController                                     *)
(***************************************************************************)
\* Prisma.UserScalarFieldEnum
UserScalarFields ==
    {"id", "firstName", "lastName", "email", "username", "hash", "isActive",
     "createdAt", "updatedAt"}

\* omit: { hash: true }
OmitHash(fields) == fields \ {"hash"}

\* bcrypt.hash(payload.password, 10)
Hash(password) == "$2b$10$" \o password

\* The indexes are missing: every username and email is accepted.
UsersKeysDropped(id, username, email) == TRUE

\* users_username_key and users_email_key: no other row holds either value
UsersKeys(id, username, email) ==
    ~\E x \in users : x.id # id /\ (x.username = username \/ x.email = email)

\* posts_authorId_fkey and projects_userId_fkey, ON DELETE RESTRICT
UsersReferenced(id) ==
    \/ \E p \in posts : p.authorId = id
    \/ \E p \in projects : p.userId = id

\* create: findFirst({ where: { OR: [{ username }, { email }] } }), then
\* the message of the first collision the returned row shows.
UsersCreateFind(r, username, email) ==
    /\ reqs[r].op = "idle"
    /\ nextId.user + InFlight("users.create") <= MaxUserId
    /\ LET matches == {x \in users :
                          x.username = username \/ x.email = email}
       IN IF matches # {}
          THEN /\ \E existingUser \in matches :
                    resp' = Respond("users.create", 400, NoUser, 0, {}, 0,
                               IF existingUser.username = username
                               THEN "Username is not available"
                               ELSE "Email is already in use", {})
               /\ UNCHANGED reqs
          ELSE /\ reqs' = [reqs EXCEPT ![r] =
                    [Idle EXCEPT !.op = "users.create", !.pc = "create",
                                 !.username = username, !.email = email]]
               /\ UNCHANGED resp
    /\ UNCHANGED <<svc, users, roles, userRoles, posts, projects, nextId>>

\* create: hash the password and insert; P2002 on either index.
UsersCreateInsert(r) ==
    /\ reqs[r].op = "users.create" /\ reqs[r].pc = "create"
    /\ \E password \in Passwords :
       LET q == reqs[r]
           row == [id |-> nextId.user, username |-> q.username,
                   email |-> q.email, hash |-> Hash(password),
                   isActive |-> TRUE]
       IN IF UsersKeys(0, q.username, q.email)
          THEN /\ users' = users \cup {row}
               /\ nextId' = [nextId EXCEPT !.user = @ + 1]
               /\ resp' = Respond("users.create", 201, NoUser, row.id,
                                  {row}, row.id, NoValue,
                                  OmitHash(UserScalarFields))
          ELSE /\ resp' = Respond("users.create", 500, NoUser, 0, {}, 0,
                                  NoValue, {})
               /\ UNCHANGED <<users, nextId>>
    /\ reqs' = [reqs EXCEPT ![r] = Idle]
    /\ UNCHANGED <<svc, roles, userRoles, posts, projects>>

\* The check with the negation of isUserAdmin lost.
UsersUpdateDeniedIfAdmin(reqUser, entity) ==
    reqUser.id # entity.id /\ isUserAdmin(reqUser)

\* reqUser.id !== entity.id && !isUserAdmin
UsersUpdateDenied(reqUser, entity) ==
    reqUser.id # entity.id /\ ~isUserAdmin(reqUser)

\* updateById: look the account up, 404, then self-or-admin, 403.
UsersUpdateFind(r, u, id, username, email) ==
    /\ reqs[r].op = "idle"
    /\ LET reqUser == ReqUser(u)
           rows == findUnique(users, id)
       IN IF rows = {}
          THEN /\ resp' = Respond("users.updateById", 404, reqUser, id, {},
                                  0, NoValue, {})
               /\ UNCHANGED reqs
          ELSE IF UsersUpdateDenied(reqUser, TheRow(rows))
               THEN /\ resp' = Respond("users.updateById", 403, reqUser, id,
                                       rows, id, NoValue, {})
                    /\ UNCHANGED reqs
               ELSE /\ reqs' = [reqs EXCEPT ![r] =
                         [Idle EXCEPT !.op = "users.updateById",
                                      !.pc = "update", !.reqUser = reqUser,
                                      !.id = id, !.username = username,
                                      !.email = email, !.entity = rows]]
                    /\ UNCHANGED resp
    /\ UNCHANGED <<svc, users, roles, userRoles, posts, projects, nextId>>

\* updateById: the update with the payload as data; P2025 if the row is
\* gone, P2002 on either index.
UsersUpdateWrite(r) ==
    /\ reqs[r].op = "users.updateById" /\ reqs[r].pc = "update"
    /\ LET q == reqs[r]
           rows == findUnique(users, q.id)
       IN IF rows # {} /\ UsersKeys(q.id, q.username, q.email)
          THEN /\ users' = (users \ rows) \cup
                      {[TheRow(rows) EXCEPT !.username = q.username,
                                            !.email = q.email]}
               /\ resp' = Respond("users.updateById", 200, q.reqUser, q.id,
                                  q.entity, q.id, NoValue,
                                  OmitHash(UserScalarFields))
          ELSE /\ resp' = Respond("users.updateById", 500, q.reqUser, q.id,
                                  q.entity, q.id, NoValue, {})
               /\ UNCHANGED users
    /\ reqs' = [reqs EXCEPT ![r] = Idle]
    /\ UNCHANGED <<svc, roles, userRoles, posts, projects, nextId>>

\* The passwords an updatePassword may carry
NewPasswords == {"pw2"}

\* The check with an exemption for ADMIN, as updateById has it.
UsersUpdatePasswordDeniedUnlessAdmin(reqUser, entity) ==
    reqUser.id # entity.id /\ ~isUserAdmin(reqUser)

\* reqUser.id !== entity.id
UsersUpdatePasswordDenied(reqUser, entity) == reqUser.id # entity.id

\* updatePassword: look the account up, 404, then the self check, 403.
UsersUpdatePasswordFind(r, u, id) ==
    /\ reqs[r].op = "idle"
    /\ LET reqUser == ReqUser(u)
           rows == findUnique(users, id)
       IN IF rows = {}
          THEN /\ resp' = Respond("users.updatePassword", 404, reqUser, id,
                                  {}, 0, NoValue, {})
               /\ UNCHANGED reqs
          ELSE IF UsersUpdatePasswordDenied(reqUser, TheRow(rows))
               THEN /\ resp' = Respond("users.updatePassword", 403, reqUser,
                                       id, rows, id, NoValue, {})
                    /\ UNCHANGED reqs
               ELSE /\ reqs' = [reqs EXCEPT ![r] =
                         [Idle EXCEPT !.op = "users.updatePassword",
                                      !.pc = "update", !.reqUser = reqUser,
                                      !.id = id, !.entity = rows]]
                    /\ UNCHANGED resp
    /\ UNCHANGED <<svc, users, roles, userRoles, posts, projects, nextId>>

\* updatePassword: hash the password and update; P2025 if the row is gone.
UsersUpdatePasswordWrite(r) ==
    /\ reqs[r].op = "users.updatePassword" /\ reqs[r].pc = "update"
    /\ \E password \in NewPasswords :
       LET q == reqs[r]
           rows == findUnique(users, q.id)
       IN IF rows # {}
          THEN /\ users' = (users \ rows) \cup
                      {[TheRow(rows) EXCEPT !.hash = Hash(password)]}
               /\ resp' = Respond("users.updatePassword", 200, q.reqUser,
                                  q.id, q.entity, q.id, NoValue,
                                  OmitHash(UserScalarFields))
          ELSE /\ resp' = Respond("users.updatePassword", 500, q.reqUser,
                                  q.id, q.entity, q.id, NoValue, {})
               /\ UNCHANGED users
    /\ reqs' = [reqs EXCEPT ![r] = Idle]
    /\ UNCHANGED <<svc, roles, userRoles, posts, projects, nextId>>

\* The decorator lists no role: the guard lets every principal through.
UsersDeleteRolesNone == {}

\* @Roles('ADMIN') on DELETE /users/id/:id
UsersDeleteRoles == {"ADMIN"}

\* reflector.get('roles') is undefined when the route declares none.
GuardPasses(required, reqUser) ==
    required = {} \/ canActivate(required, reqUser)

\* DELETE /users/id/:id: the guard.
UsersDeleteGuard(r, u, id) ==
    /\ reqs[r].op = "idle"
    /\ LET reqUser == ReqUser(u)
       IN IF ~GuardPasses(UsersDeleteRoles, reqUser)
          THEN /\ resp' = Respond("users.deleteById", 403, reqUser, id,
                                  findUnique(users, id), id, NoValue, {})
               /\ UNCHANGED reqs
          ELSE /\ reqs' = [reqs EXCEPT ![r] =
                    [Idle EXCEPT !.op = "users.deleteById", !.pc = "find",
                                 !.reqUser = reqUser, !.id = id]]
               /\ UNCHANGED resp
    /\ UNCHANGED <<svc, users, roles, userRoles, posts, projects, nextId>>

\* deleteById: look the account up, 404.
UsersDeleteFind(r) ==
    /\ reqs[r].op = "users.deleteById" /\ reqs[r].pc = "find"
    /\ LET q == reqs[r]
           rows == findUnique(users, q.id)
       IN IF rows = {}
          THEN /\ resp' = Respond("users.deleteById", 404, q.reqUser, q.id,
                                  {}, 0, NoValue, {})
               /\ reqs' = [reqs EXCEPT ![r] = Idle]
          ELSE /\ reqs' = [reqs EXCEPT ![r].pc = "delete",
                                       ![r].entity = rows]
               /\ UNCHANGED resp
    /\ UNCHANGED <<svc, users, roles, userRoles, posts, projects, nextId>>

\* deleteById: the delete; P2025 if the row is gone, P2003 while a Post or
\* Project references the account; _user_role cascades.
UsersDeleteWrite(r) ==
    /\ reqs[r].op = "users.deleteById" /\ reqs[r].pc = "delete"
    /\ LET q == reqs[r]
           rows == findUnique(users, q.id)
       IN IF rows # {} /\ ~UsersReferenced(q.id)
          THEN /\ users' = users \ rows
               /\ userRoles' = {ur \in userRoles : ur[1] # q.id}
               /\ resp' = Respond("users.deleteById", 200, q.reqUser, q.id,
                                  q.entity, q.id, NoValue,
                                  OmitHash(UserScalarFields))
          ELSE /\ resp' = Respond("users.deleteById", 500, q.reqUser, q.id,
                                  q.entity, q.id, NoValue, {})
               /\ UNCHANGED <<users, userRoles>>
    /\ reqs' = [reqs EXCEPT ![r] = Idle]
    /\ UNCHANGED <<svc, roles, posts, projects, nextId>>

\* The payloads of removeRole: an account id and a role id.
UserRoleDtos == [userId : {1, 2}, roleId : {1, 2}]

\* removeRole: read the account with its roles and the role; 404, 404,
\* 400 if the account does not hold the role.
UsersRemoveRole(r, reqUser, payload) ==
    /\ LET user == findUnique(users, payload.userId)
           role == findUnique(roles, payload.roleId)
       IN IF user = {}
          THEN /\ resp' = Respond("users.removeRole", 404, reqUser,
                                  payload.userId, {}, 0, NoValue, {})
               /\ reqs' = [reqs EXCEPT ![r] = Idle]
          ELSE IF role = {}
          THEN /\ resp' = Respond("users.removeRole", 404, reqUser,
                                  payload.userId, user, 0, NoValue, {})
               /\ reqs' = [reqs EXCEPT ![r] = Idle]
          ELSE IF <<payload.userId, payload.roleId>> \notin userRoles
          THEN /\ resp' = Respond("users.removeRole", 400, reqUser,
                                  payload.userId, user, 0,
                                  TheRow(role).name, {})
               /\ reqs' = [reqs EXCEPT ![r] = Idle]
          ELSE /\ reqs' = [reqs EXCEPT ![r] =
                    [@ EXCEPT !.op = "users.removeRole", !.pc = "update",
                              !.reqUser = reqUser, !.id = payload.userId,
                              !.entity = role]]
               /\ UNCHANGED resp
    /\ UNCHANGED <<svc, users, roles, userRoles, posts, projects, nextId>>

\* removeRole called with a principal of the store.
UsersRemoveRoleFind(r, u, payload) ==
    /\ reqs[r].op = "idle"
    /\ UsersRemoveRole(r, ReqUser(u), payload)

\* removeRole called by the handler with req.user.
UsersRemoveRoleCall(r) ==
    /\ reqs[r].op = "users.removeRole" /\ reqs[r].pc = "find"
    /\ \E payload \in UserRoleDtos :
           UsersRemoveRole(r, reqs[r].reqUser, payload)

\* removeRole: update with roles: { disconnect: { id: roleId } }; P2025
\* if the account is gone; disconnecting a link that is gone changes
\* nothing.
UsersRemoveRoleWrite(r) ==
    /\ reqs[r].op = "users.removeRole" /\ reqs[r].pc = "update"
    /\ LET q == reqs[r]
           role == TheRow(q.entity)
           rows == findUnique(users, q.id)
       IN IF rows # {}
          THEN /\ userRoles' = userRoles \ {<<q.id, role.id>>}
               /\ resp' = Respond("users.removeRole", 200, q.reqUser, q.id,
                                  rows, 0, role.name,
                                  OmitHash(UserScalarFields) \cup {"roles"})
          ELSE /\ resp' = Respond("users.removeRole", 500, q.reqUser, q.id,
                                  rows, 0, role.name, {})
               /\ UNCHANGED userRoles
    /\ reqs' = [reqs EXCEPT ![r] = Idle]
    /\ UNCHANGED <<svc, users, roles, posts, projects, nextId>>

(***************************************************************************)
(* List queries: findMany with where, orderBy, skip/take and projection    *)
(***************************************************************************)
\* Prisma.PostScalarFieldEnum
PostScalarFields ==
    {"id", "title", "slug", "content", "published", "authorId", "createdAt",
     "updatedAt"}

\* Columns of the Project model
ProjectScalarFields ==
    {"id", "title", "slug", "description", "repoUrl", "demoUrl", "techStack",
     "featured", "userId", "createdAt", "updatedAt"}

\* Prisma.RoleScalarFieldEnum
RoleScalarFields == {"id", "name", "description", "createdAt", "updatedAt"}

\* The fields of a relation loaded under the key rel of each item.
Nested(rel, fields) == {rel \o "." \o f : f \in fields}

\* A relation requested as `true` comes back with every scalar column of
\* the related model.
RelationTrue(rel, scalars) == Nested(rel, scalars)

\* orderBy: { [query.sortBy]: query.sortOrder }: the sequences of the
\* matching rows the store may return. Rows that agree on the sort column
\* come in whatever order the store produces for that one query.
OrderBy(rows, query) ==
    {s \in [1..Cardinality(rows) -> rows] :
        /\ \A i, j \in DOMAIN s : i # j => s[i] # s[j]
        /\ \A i, j \in DOMAIN s :
               i < j => IF query.sortOrder = "asc"
                        THEN s[i][query.sortBy] <= s[j][query.sortBy]
                        ELSE s[i][query.sortBy] >= s[j][query.sortBy]}

\* The page taken one page too far.
SkipFromPage(query) == query.page * query.pageSize

\* skip: (query.page - 1) * query.pageSize
Skip(query) == (query.page - 1) * query.pageSize

\* take: query.pageSize
Take(query) == query.pageSize

\* findMany({ skip, take }) over the ordered rows
SkipTake(s, skip, take) ==
    LET last == IF skip + take < Len(s) THEN skip + take ELSE Len(s)
    IN SubSeq(s, skip + 1, last)

\* The rows a list query returns: all of them, or one page.
Items(s, query) ==
    IF query.withPagination THEN SkipTake(s, Skip(query), Take(query))
    ELSE s

NaN == "NaN"
Infinity == "Infinity"

\* Math.ceil(total / query.pageSize)
PageCount(total, pageSize) ==
    IF pageSize = 0 THEN (IF total = 0 THEN NaN ELSE Infinity)
    ELSE IF total % pageSize = 0 THEN total \div pageSize
    ELSE (total \div pageSize) + 1

\* PostsService.get, Select & Include: an explicit field list selects
\* exactly those columns, otherwise every column; the author is added as
\* `select.author = true` or `include.author = true`.
PostsProjection(query) ==
    IF query.field # {}
    THEN query.field \cup
         (IF query.include THEN RelationTrue("author", UserScalarFields)
          ELSE {})
    ELSE (PostScalarFields \ {}) \cup
         (IF query.include THEN RelationTrue("author", UserScalarFields)
          ELSE {})

\* ProjectsService.get, Include relations: `include.user = true`.
ProjectsProjection(query) ==
    ProjectScalarFields \cup
    (IF query.include THEN RelationTrue("user", UserScalarFields) ELSE {})

\* UsersService.get, Select & Include: select of the listed fields, or
\* include with every column; roles as `select.roles` / `include.roles`.
UsersProjection(query) ==
    IF query.field # {}
    THEN query.field \cup
         (IF query.include THEN RelationTrue("roles", RoleScalarFields)
          ELSE {})
    ELSE UserScalarFields \cup
         (IF query.include THEN RelationTrue("roles", RoleScalarFields)
          ELSE {})

\* What a paginated query asks for: a page and a size from 1 up, or not.
PageArgument(query) ==
    IF ~query.withPagination THEN NoValue
    ELSE IF query.page < 1 \/ query.pageSize < 1 THEN "invalid"
    ELSE "valid"

\* findMany({ skip, take }): the store refuses a negative skip.
SkipRejected(query) == query.withPagination /\ Skip(query) < 0

\* The query as the caller asked it, without the choice of fields.
Asked(query) ==
    [ownerId |-> query.ownerId, sortBy |-> query.sortBy,
     sortOrder |-> query.sortOrder, withPagination |-> query.withPagination,
     page |-> query.page, pageSize |-> query.pageSize]

\* The body: { total, page, pageSize, pageCount, items } when paginated,
\* the bare items otherwise.
ListBody(s, total, query) ==
    LET items == Items(s, query)
        ids == [i \in DOMAIN items |-> items[i].id]
    IN IF query.withPagination
       THEN [asked |-> Asked(query), skip |-> Skip(query),
             take |-> Take(query), total |-> total, page |-> query.page,
             pageSize |-> query.pageSize,
             pageCount |-> PageCount(total, query.pageSize), items |-> ids]
       ELSE [NoList EXCEPT !.asked = Asked(query), !.items = ids]

\* The response to a list query over the rows findMany returned in the
\* order s and the total of the count query: how many items came back (id),
\* the total when paginated (owner), the fields of the items and the body;
\* the error of the store, which nothing catches, is a 500.
ListResponse(op, reqUser, s, total, query, projection) ==
    LET items == Items(s, query)
    IN IF SkipRejected(query)
       THEN [Respond(op, 500, reqUser, 0, {}, 0, PageArgument(query), {})
             EXCEPT !.list = [NoList EXCEPT !.asked = Asked(query)]]
       ELSE [Respond(op, 200, reqUser, Len(items), {}, 
                     IF query.withPagination THEN total ELSE 0,
                     PageArgument(query),
                     IF Len(items) = 0 THEN {} ELSE projection)
             EXCEPT !.found = Len(items) > 0,
                    !.list = ListBody(s, total, query)]

\* where.authorId = { in: query.authorId }
PostsWhere(query) ==
    IF query.ownerId = {} THEN posts
    ELSE {p \in posts : p.authorId \in query.ownerId}

\* where.userId = { in: query.userId }
ProjectsWhere(query) ==
    IF query.ownerId = {} THEN projects
    ELSE {p \in projects : p.userId \in query.ownerId}

\* where.id = { in: query.id }
UsersWhere(query) ==
    IF query.ownerId = {} THEN users
    ELSE {x \in users : x.id \in query.ownerId}

\* RolesService.get, Select & Include: `select.users` / `include.users`.
RolesProjection(query) ==
    IF query.field # {}
    THEN query.field \cup
         (IF query.include THEN RelationTrue("users", UserScalarFields)
          ELSE {})
    ELSE RoleScalarFields \cup
         (IF query.include THEN RelationTrue("users", UserScalarFields)
          ELSE {})

\* where.id = { in: query.id }
RolesWhere(query) ==
    IF query.ownerId = {} THEN roles
    ELSE {x \in roles : x.id \in query.ownerId}

\* PostsService.get, paginated, next to requests that write: Promise.all
\* sends findMany and count as two queries, and the store answers them in
\* either order.  The first of them; a findMany the store rejects fails
\* the request.
PostsGetFirst(r, u, query) ==
    /\ reqs[r].op = "idle"
    /\ query.withPagination
    /\ LET q == [Idle EXCEPT !.op = "posts.get", !.reqUser = ReqUser(u),
                             !.query = query]
       IN IF SkipRejected(query)
          THEN /\ resp' = ListResponse("posts.get", q.reqUser, <<>>, 0,
                                       query, PostsProjection(query))
               /\ UNCHANGED reqs
          ELSE /\ \/ \E s \in OrderBy(PostsWhere(query), query) :
                        reqs' = [reqs EXCEPT ![r] =
                                    [q EXCEPT !.pc = "count", !.rows = s]]
                  \/ reqs' = [reqs EXCEPT ![r] =
                        [q EXCEPT !.pc = "findMany",
                                  !.total = Cardinality(PostsWhere(query))]]
               /\ UNCHANGED resp
    /\ UNCHANGED <<svc, users, roles, userRoles, posts, projects, nextId>>

\* The second of the two queries, and the body built of both results.
PostsGetSecond(r) ==
    /\ reqs[r].op = "posts.get"
    /\ LET q == reqs[r]
       IN \/ /\ q.pc = "count"
             /\ resp' = ListResponse("posts.get", q.reqUser, q.rows,
                                     Cardinality(PostsWhere(q.query)),
                                     q.query, PostsProjection(q.query))
          \/ /\ q.pc = "findMany"
             /\ \E s \in OrderBy(PostsWhere(q.query), q.query) :
                   resp' = ListResponse("posts.get", q.reqUser, s, q.total,
                                        q.query, PostsProjection(q.query))
    /\ reqs' = [reqs EXCEPT ![r] = Idle]
    /\ UNCHANGED <<svc, users, roles, userRoles, posts, projects, nextId>>

\* PostsService.get over a store that no request changes: the two queries
\* see the same rows.
PostsGet(u, query) ==
    /\ \E s \in OrderBy(PostsWhere(query), query) :
          resp' = ListResponse("posts.get", ReqUser(u), s,
                               Cardinality(PostsWhere(query)),
                               query, PostsProjection(query))
    /\ UNCHANGED <<svc, users, roles, userRoles, posts, projects, nextId,
                   reqs>>

\* ProjectsService.get
ProjectsGet(u, query) ==
    /\ query.field = {}
    /\ \E s \in OrderBy(ProjectsWhere(query), query) :
          resp' = ListResponse("projects.get", ReqUser(u), s,
                               Cardinality(ProjectsWhere(query)),
                               query, ProjectsProjection(query))
    /\ UNCHANGED <<svc, users, roles, userRoles, posts, projects, nextId,
                   reqs>>

\* UsersService.get
UsersGet(u, query) ==
    /\ \E s \in OrderBy(UsersWhere(query), query) :
          resp' = ListResponse("users.get", ReqUser(u), s,
                               Cardinality(UsersWhere(query)),
                               query, UsersProjection(query))
    /\ UNCHANGED <<svc, users, roles, userRoles, posts, projects, nextId,
                   reqs>>

\* RolesService.get
RolesGet(u, query) ==
    /\ \E s \in OrderBy(RolesWhere(query), query) :
          resp' = ListResponse("roles.get", ReqUser(u), s,
                               Cardinality(RolesWhere(query)),
                               query, RolesProjection(query))
    /\ UNCHANGED <<svc, users, roles, userRoles, posts, projects, nextId,
                   reqs>>

\* The global ValidationPipe on a list DTO: page and pageSize are
\* @IsInt() @Min(1).
ValidationPipe(query) == query.page >= 1 /\ query.pageSize >= 1

\* The 400 of the ValidationPipe: the handler is not called.
BadRequest(op, u, query) ==
    /\ resp' = [Respond(op, 400, ReqUser(u), 0, {}, 0,
                        PageArgument(query), {})
                EXCEPT !.list = [NoList EXCEPT !.asked = Asked(query)]]
    /\ UNCHANGED <<svc, users, roles, userRoles, posts, projects, nextId,
                   reqs>>

\* GET /posts: get(@Query() query: GetPostsDto)
PostsControllerGet(u, query) ==
    IF ValidationPipe(query) THEN PostsGet(u, query)
    ELSE BadRequest("posts.get", u, query)

\* GET /projects: get(@Query() query: GetProjectsDto)
ProjectsControllerGet(u, query) ==
    IF ValidationPipe(query) THEN ProjectsGet(u, query)
    ELSE BadRequest("projects.get", u, query)

\* GET /users: get(@Query() query: GetUsersDto)
UsersControllerGet(u, query) ==
    IF ValidationPipe(query) THEN UsersGet(u, query)
    ELSE BadRequest("users.get", u, query)

\* GET /roles: get(@Query() query: GetRolesDto)
RolesControllerGet(u, query) ==
    IF ValidationPipe(query) THEN RolesGet(u, query)
    ELSE BadRequest("roles.get", u, query)

(***************************************************************************)
(* The request pipeline: JwtAuthGuard, JwtStrategy, RolesGuard, handler    *)
(***************************************************************************)
\* GET /posts/check-slug marked @Public() as well.
PublicRoutesWithCheckSlug == {"users.create", "posts.checkSlug"}

\* Routes marked @Public()
PublicRoutes == {"users.create"}

\* Routes under @UseGuards(RolesGuard) @Roles('ADMIN')
AdminRoutes ==
    {"roles.create", "roles.get", "roles.updateById", "roles.deleteById",
     "users.assignRole", "users.removeRole", "users.deleteById"}

\* Routes with neither decorator
PlainRoutes == {"posts.get", "posts.deleteById", "posts.checkSlug"}

Routes == PublicRoutes \cup AdminRoutes \cup PlainRoutes

\* The decorator of one admin-only route is lost.
RolesOfLost(op) ==
    IF op \in AdminRoutes \ {"users.assignRole"} THEN {"ADMIN"} ELSE {}

\* reflector.get('roles', context.getHandler())
RolesOf(op) == IF op \in AdminRoutes THEN {"ADMIN"} ELSE {}

\* What a request can carry as its bearer token: nothing, a string that is
\* no JWT, or a JWT for an account id that is expired, signed with another
\* secret, or good.
Tokens ==
    {NoToken, [kind |-> "malformed", userId |-> 0]} \cup
    [kind : {"expired", "badsig"}, userId : {1}] \cup
    [kind : {"valid"}, userId : {1, 2}]

\* Expired tokens are let through.
ignoreExpirationSet == TRUE

\* ignoreExpiration: false
ignoreExpiration == FALSE

\* passport-jwt with the options of the strategy: the token is taken from
\* the Authorization header as a bearer token, its signature is verified
\* with secretOrKey and its expiry is honoured.
Verified(token) ==
    \/ token.kind = "valid"
    \/ token.kind = "expired" /\ ignoreExpiration

\* PostsService.checkSlug(req.user.id, query): { isAvailable: !existing }
\* for the slug under the caller; found tells whether a Post holds it.
PostsCheckSlug(q, slug) ==
    LET existing == PostsFindFirst(slug, q.reqUser.id)
    IN Respond(q.op, 200, q.reqUser, q.id, existing, q.reqUser.id,
               q.token.kind, {"isAvailable"})

\* The routes whose Service method goes on after the call.
Served ==
    IF svc = "revoke"
    THEN {"users.deleteById", "users.removeRole", "posts.deleteById"}
    ELSE {"users.deleteById"}

\* The handler calls its Service method with req.user.  The methods of
\* Served go on in their Service; check-slug answers from one read; of the
\* other methods only the call is recorded.
Handler(r, q) ==
    IF q.op \in Served
    THEN /\ reqs' = [reqs EXCEPT ![r] = [q EXCEPT !.pc = "find"]]
         /\ UNCHANGED resp
    ELSE IF q.op = "posts.checkSlug"
    THEN /\ \E slug \in Slugs : resp' = PostsCheckSlug(q, slug)
         /\ reqs' = [reqs EXCEPT ![r] = Idle]
    ELSE /\ resp' = Respond(q.op, 200, q.reqUser, q.id, {}, 0, q.token.kind,
                            {})
         /\ reqs' = [reqs EXCEPT ![r] = Idle]

\* JwtAuthGuard on a request that comes in: a public route passes as it
\* is; any other route needs a verified token, else 401.
JwtAuthGuard(r, op, token, id) ==
    /\ reqs[r].op = "idle"
    /\ id # 0 <=> op \in Served \ {"users.removeRole"}
    /\ LET q == [Idle EXCEPT !.op = op, !.token = token, !.id = id,
                             !.wasAdmin = "ADMIN" \in
                                              RoleNamesOf(token.userId)]
       IN IF op \in PublicRoutes
          THEN Handler(r, q)
          ELSE IF ~Verified(token)
               THEN /\ resp' = Respond(op, 401, NoUser, id, {}, 0,
                                       token.kind, {})
                    /\ UNCHANGED reqs
               ELSE /\ reqs' = [reqs EXCEPT ![r] =
                                    [q EXCEPT !.pc = "validate"]]
                    /\ UNCHANGED resp
    /\ UNCHANGED <<svc, users, roles, userRoles, posts, projects, nextId>>

\* The relations the account is loaded with: none.
validateInclude == {}

\* req.user as validate returns it: the account without hash, and its
\* roles only if the read includes them.
validate(user) ==
    [id |-> user.id,
     roles |-> IF "roles" \in validateInclude THEN RoleNamesOf(user.id)
               ELSE {}]

\* The check of the active flag is missing.
validateRejectsDeletedOnly(rows) == rows = {}

\* if (!user) 401 'User not found'; if (!user.is_active) 401 'disabled'
validateRejects(rows) == rows = {} \/ ~TheRow(rows).isActive

\* JwtStrategy.validate: read the account of payload.userId; 401 or on
\* to the guard of the route, or to the handler if it has none.
Validate(r) ==
    /\ reqs[r].pc = "validate"
    /\ LET q == reqs[r]
           rows == findUnique(users, q.token.userId)
       IN IF validateRejects(rows)
          THEN /\ resp' = Respond(q.op, 401,
                                  [id |-> q.token.userId, roles |-> {}],
                                  q.id, rows, 0, q.token.kind, {})
               /\ reqs' = [reqs EXCEPT ![r] = Idle]
          ELSE IF q.op \in AdminRoutes
               THEN /\ reqs' = [reqs EXCEPT ![r].pc = "guard",
                                   ![r].reqUser = validate(TheRow(rows))]
                    /\ UNCHANGED resp
               ELSE Handler(r, [q EXCEPT !.reqUser = validate(TheRow(rows))])
    /\ UNCHANGED <<svc, users, roles, userRoles, posts, projects, nextId>>

\* RolesGuard on the route: 403 unless the account, read again with its
\* roles, holds one of the roles of the route.
RolesGuard(r) ==
    /\ reqs[r].pc = "guard"
    /\ LET q == reqs[r]
       IN IF RolesOf(q.op) # {} /\ ~canActivate(RolesOf(q.op), q.reqUser)
          THEN /\ resp' = Respond(q.op, 403,
                                  [id |-> q.reqUser.id,
                                   roles |-> RoleNamesOf(q.reqUser.id)],
                                  q.id, {}, 0, q.token.kind, {})
               /\ reqs' = [reqs EXCEPT ![r] = Idle]
          ELSE Handler(r, q)
    /\ UNCHANGED <<svc, users, roles, userRoles, posts, projects, nextId>>

\* prisma.user.update({ where: { id }, data: { isActive: false } }): an
\* account is disabled directly in the store.
Disable(id) ==
    /\ \E x \in users : x.id = id /\ x.isActive
    /\ users' = {IF x.id = id THEN [x EXCEPT !.isActive = FALSE] ELSE x :
                    x \in users}
    /\ UNCHANGED <<svc, roles, userRoles, posts, projects, nextId, reqs,
                   resp>>

(***************************************************************************)
(* Posts and Projects under concurrent requests; accounts and roles fixed  *)
(***************************************************************************)
\* Accounts as seeded: one ADMIN, one without ADMIN.
SeedUsers ==
    {[id |-> 1, username |-> "alice", email |-> "alice@x",
      hash |-> Hash("pw1"), isActive |-> TRUE],
     [id |-> 2, username |-> "bob", email |-> "bob@x", hash |-> Hash("pw1"),
      isActive |-> TRUE]}

SeedRoles == {[id |-> 1, name |-> "ADMIN"]}

SeedUserRoles == {<<1, 1>>}

UserIds == {u.id : u \in users}

InitContent ==
    /\ users = SeedUsers
    /\ roles = SeedRoles
    /\ userRoles = SeedUserRoles
    /\ posts = {}
    /\ projects = {}
    /\ nextId = [post |-> 1, project |-> 1, user |-> 3, role |-> 2]
    /\ reqs = [r \in Slots |-> Idle]
    /\ resp = NoResp
    /\ svc \in {"posts", "projects"}

NextPosts ==
    \E r \in Slots :
        \/ \E u \in UserIds, slug \in Slugs : PostsCreateFind(r, u, slug)
        \/ PostsCreateInsert(r)
        \/ \E u \in UserIds, id \in 1..MaxPostId, slug \in Slugs \cup {NoSlug} :
               PostsUpdateFind(r, u, id, slug)
        \/ PostsUpdateCheckSlug(r)
        \/ PostsUpdateWrite(r)
        \/ \E u \in UserIds, id \in 1..MaxPostId : PostsDeleteFind(r, u, id)
        \/ PostsDeleteWrite(r)

NextProjects ==
    \E r \in Slots :
        \/ \E u \in UserIds, slug \in Slugs : ProjectsCreateFind(r, u, slug)
        \/ ProjectsCreateInsert(r)
        \/ \E u \in UserIds, id \in 1..MaxProjectId,
                slug \in Slugs \cup {NoSlug} :
               ProjectsUpdateFind(r, u, id, slug)
        \/ ProjectsUpdateCheckSlug(r)
        \/ ProjectsUpdateWrite(r)
        \/ \E u \in UserIds, id \in 1..MaxProjectId :
               ProjectsDeleteFind(r, u, id)
        \/ ProjectsDeleteWrite(r)

NextContent ==
    \/ svc = "posts" /\ NextPosts
    \/ svc = "projects" /\ NextProjects

SpecContent == InitContent /\ [][NextContent]_vars

(***************************************************************************)
(* Role administration under concurrent requests                           *)
(***************************************************************************)
InitRoles ==
    /\ users = SeedUsers
    /\ roles = SeedRoles
    /\ userRoles = SeedUserRoles
    /\ posts = {}
    /\ projects = {}
    /\ nextId = [post |-> 1, project |-> 1, user |-> 3, role |-> 2]
    /\ reqs = [r \in RoleSlots |-> Idle]
    /\ resp = NoResp
    /\ svc = "roles"

NextRoles ==
    \E r \in DOMAIN reqs :
        \/ \E u \in UserIds, name \in RoleNames : RolesCreateGuard(r, u, name)
        \/ RolesCreateInsert(r)
        \/ \E u \in UserIds, id \in 1..MaxRoleId,
                name \in RoleNames \cup {NoValue} :
               RolesUpdateGuard(r, u, id, name)
        \/ RolesUpdateFind(r)
        \/ RolesUpdateWrite(r)
        \/ \E u \in UserIds, id \in 1..MaxRoleId : RolesDeleteGuard(r, u, id)
        \/ RolesDeleteFind(r)
        \/ RolesDeleteWrite(r)

SpecRoles == InitRoles /\ [][NextRoles]_vars

(***************************************************************************)
(* Account administration under concurrent requests                        *)
(***************************************************************************)
InitUsers ==
    /\ users = SeedUsers
    /\ roles = SeedRoles
    /\ userRoles = SeedUserRoles
    /\ posts = {[id |-> 1, slug |-> "hello", authorId |-> 1]}
    /\ projects = {}
    /\ nextId = [post |-> 2, project |-> 1, user |-> 3, role |-> 2]
    /\ reqs = [r \in Slots |-> Idle]
    /\ resp = NoResp
    /\ svc = "users"

NextUsers ==
    \E r \in Slots :
        \/ \E username \in Usernames, email \in Emails :
               UsersCreateFind(r, username, email)
        \/ UsersCreateInsert(r)
        \/ \E u \in UserIds, id \in 1..MaxUserId, username \in Usernames,
                email \in Emails :
               UsersUpdateFind(r, u, id, username, email)
        \/ UsersUpdateWrite(r)
        \/ \E u \in UserIds, id \in 1..MaxUserId : UsersDeleteGuard(r, u, id)
        \/ UsersDeleteFind(r)
        \/ UsersDeleteWrite(r)

SpecUsers == InitUsers /\ [][NextUsers]_vars

(***************************************************************************)
(* Password changes next to account updates and deletions                  *)
(***************************************************************************)
NextPassword ==
    \E r \in Slots :
        \/ \E u \in UserIds, id \in 1..MaxUserId :
               UsersUpdatePasswordFind(r, u, id)
        \/ UsersUpdatePasswordWrite(r)
        \/ \E u \in UserIds, id \in 1..MaxUserId, username \in Usernames,
                email \in Emails :
               UsersUpdateFind(r, u, id, username, email)
        \/ UsersUpdateWrite(r)
        \/ \E u \in UserIds, id \in 1..MaxUserId : UsersDeleteGuard(r, u, id)
        \/ UsersDeleteFind(r)
        \/ UsersDeleteWrite(r)

SpecPassword == InitUsers /\ [][NextPassword]_vars

(***************************************************************************)
(* All four services, two requests at a time                               *)
(***************************************************************************)
InitServices ==
    \/ InitContent
    \/ InitUsers
    \/ /\ users = SeedUsers
       /\ roles = SeedRoles
       /\ userRoles = SeedUserRoles
       /\ posts = {}
       /\ projects = {}
       /\ nextId = [post |-> 1, project |-> 1, user |-> 3, role |-> 2]
       /\ reqs = [r \in Slots |-> Idle]
       /\ resp = NoResp
       /\ svc = "roles"

NextServices ==
    \/ svc = "posts" /\ NextPosts
    \/ svc = "projects" /\ NextProjects
    \/ svc = "users" /\ NextUsers
    \/ svc = "roles" /\ NextRoles

SpecServices == InitServices /\ [][NextServices]_vars

(***************************************************************************)
(* Authentication and authorisation of concurrent requests: to one route   *)
(* and to the account deletion                                             *)
(***************************************************************************)
InitAuth ==
    /\ users = SeedUsers
    /\ roles = SeedRoles
    /\ userRoles = SeedUserRoles
    /\ posts = {[id |-> 1, slug |-> "hello", authorId |-> 2]}
    /\ projects = {}
    /\ nextId = [post |-> 2, project |-> 1, user |-> 3, role |-> 2]
    /\ reqs = [r \in Slots |-> Idle]
    /\ resp = NoResp
    /\ svc \in Routes

NextAuth ==
    \/ \E r \in Slots :
        \/ \E op \in {svc, "users.deleteById"}, token \in Tokens,
                id \in {0} \cup {x.id : x \in SeedUsers} :
               JwtAuthGuard(r, op, token, id)
        \/ Validate(r)
        \/ RolesGuard(r)
        \/ UsersDeleteFind(r)
        \/ UsersDeleteWrite(r)
    \/ \E id \in {x.id : x \in SeedUsers} : Disable(id)

SpecAuth == InitAuth /\ [][NextAuth]_vars

(***************************************************************************)
(* Removal of a role while requests with earlier tokens go on              *)
(***************************************************************************)
InitRevoke ==
    /\ users = SeedUsers
    /\ roles = SeedRoles
    /\ userRoles = SeedUserRoles
    /\ posts = {[id |-> 1, slug |-> "hello", authorId |-> 2]}
    /\ projects = {}
    /\ nextId = [post |-> 2, project |-> 1, user |-> 3, role |-> 2]
    /\ reqs = [r \in Slots |-> Idle]
    /\ resp = NoResp
    /\ svc = "revoke"

NextRevoke ==
    \E r \in Slots :
        \/ \E op \in Served, token \in Tokens, id \in {0, 1, 2} :
               JwtAuthGuard(r, op, token, id)
        \/ Validate(r)
        \/ RolesGuard(r)
        \/ UsersRemoveRoleCall(r)
        \/ UsersRemoveRoleWrite(r)
        \/ UsersDeleteFind(r)
        \/ UsersDeleteWrite(r)
        \/ PostsDeleteCall(r)
        \/ PostsDeleteWrite(r)

SpecRevoke == InitRevoke /\ [][NextRevoke]_vars

(***************************************************************************)
(* List queries over a populated store                                     *)
(***************************************************************************)
MaxPage == 2
MaxPageSize == 2

\* Paginated queries of GET /posts.
PagedQueries ==
    [field : {{}}, include : {FALSE}, ownerId : {{}},
     withPagination : {TRUE}, page : 1..MaxPage, pageSize : 1..MaxPageSize,
     sortBy : {"id"}, sortOrder : {"desc"}]

(***************************************************************************)
(* Paginated lists of Posts, asked by account 1, next to the creates and   *)
(* deletes of account 2                                                    *)
(***************************************************************************)
InitPaging ==
    /\ users = SeedUsers
    /\ roles = SeedRoles
    /\ userRoles = SeedUserRoles
    /\ posts = {[id |-> 1, slug |-> "hello", authorId |-> 2]}
    /\ projects = {}
    /\ nextId = [post |-> 2, project |-> 1, user |-> 3, role |-> 2]
    /\ reqs = [r \in Slots |-> Idle]
    /\ resp = NoResp
    /\ svc = "posts.get"

NextPaging ==
    \E r \in Slots :
        \/ \E query \in PagedQueries : PostsGetFirst(r, 1, query)
        \/ PostsGetSecond(r)
        \/ \E slug \in Slugs : PostsCreateFind(r, 2, slug)
        \/ PostsCreateInsert(r)
        \/ \E id \in 1..MaxPostId : PostsDeleteFind(r, 2, id)
        \/ PostsDeleteWrite(r)

SpecPaging == InitPaging /\ [][NextPaging]_vars

SeedPosts ==
    {[id |-> 1, slug |-> "hello", authorId |-> 1],
     [id |-> 2, slug |-> "hello", authorId |-> 2],
     [id |-> 3, slug |-> "world", authorId |-> 2]}

SeedProjects ==
    {[id |-> 1, slug |-> "hello", userId |-> 1],
     [id |-> 2, slug |-> "world", userId |-> 1]}

\* Field lists as the DTOs accept them: each name one of ALL_FIELDS.
FieldLists(model) ==
    IF model = "post" THEN {{}, {"id", "slug"}}
    ELSE IF model = "user" THEN {{}, {"id", "username"}, {"id", "hash"}}
    ELSE {{}}

\* Sort columns as the DTOs accept them: each name one of SORTABLE_FIELDS.
SortableFields(model) ==
    IF model = "post" THEN {"id", "authorId"}
    ELSE IF model = "project" THEN {"id", "userId"}
    ELSE {"id"}

\* The queries: every choice of fields and relation for the whole list in
\* the default order, and every filter, order and page without a choice of
\* fields.
Queries(model) ==
    [field : FieldLists(model), include : BOOLEAN, ownerId : {{}},
     withPagination : {FALSE}, page : {1}, pageSize : {MaxPageSize},
     sortBy : {"id"}, sortOrder : {"desc"}]
    \cup
    [field : {{}}, include : {FALSE}, ownerId : {{}, {2}},
     withPagination : BOOLEAN, page : 0..MaxPage, pageSize : 0..MaxPageSize,
     sortBy : SortableFields(model), sortOrder : {"asc", "desc"}]

ListOps == {"posts.get", "projects.get", "users.get", "roles.get"}

\* A behaviour queries one resource, over any part of its seeded records.
InitQuery ==
    /\ svc \in ListOps
    /\ users = SeedUsers
    /\ roles = SeedRoles
    /\ userRoles = SeedUserRoles
    /\ posts \in IF svc = "posts.get" THEN SUBSET SeedPosts ELSE {SeedPosts}
    /\ projects \in IF svc = "projects.get" THEN SUBSET SeedProjects
                    ELSE {SeedProjects}
    /\ nextId = [post |-> 4, project |-> 3, user |-> 3, role |-> 2]
    /\ reqs = [r \in Slots |-> Idle]
    /\ resp = NoResp

NextQuery ==
    \E u \in UserIds :
        \/ \E query \in Queries("post") :
               svc = "posts.get" /\ PostsControllerGet(u, query)
        \/ \E query \in Queries("project") :
               svc = "projects.get" /\ ProjectsControllerGet(u, query)
        \/ \E query \in Queries("user") :
               svc = "users.get" /\ UsersControllerGet(u, query)
        \/ \E query \in Queries("role") :
               svc = "roles.get" /\ RolesControllerGet(u, query)
        \/ \E query \in Queries("post") :
               svc = "posts.get" /\ PostsGet(u, query)
        \/ \E query \in Queries("project") :
               svc = "projects.get" /\ ProjectsGet(u, query)
        \/ \E query \in Queries("user") :
               svc = "users.get" /\ UsersGet(u, query)
        \/ \E query \in Queries("role") :
               svc = "roles.get" /\ RolesGet(u, query)

SpecQuery == InitQuery /\ [][NextQuery]_vars

(***************************************************************************)
(* Properties                                                              *)
(***************************************************************************)
UpdateOps == {"posts.updateById", "projects.updateById"}
DeleteOps == {"posts.deleteById", "projects.deleteById"}

ContentIds(op) ==
    IF op \in {"posts.updateById", "posts.deleteById", "posts.create"}
    THEN {p.id : p \in posts} ELSE {p.id : p \in projects}

\* C1: an updateById of an existing Post or Project succeeds only for the
\* principal whose id is the record's owner id; any other principal, an
\* ADMIN included, gets 403 Forbidden.
C1_UpdateIsOwnerOnly ==
    (resp.op \in UpdateOps /\ resp.found) =>
        /\ resp.status = 200 => resp.actor = resp.owner
        /\ resp.actor # resp.owner => resp.status = 403

C1_AdminUpdateForbidden ==
    /\ resp.op \in UpdateOps /\ resp.found
    /\ resp.admin /\ resp.actor # resp.owner /\ resp.status = 403

\* C3: a deleteById of an existing Post or Project succeeds exactly for the
\* owner and for a principal holding ADMIN (a record that a concurrent
\* request removed first is no longer an existing one); any other principal
\* gets 403 Forbidden and the record stays stored.
C3_DeleteIsOwnerOrAdmin ==
    (resp.op \in DeleteOps /\ resp.found) =>
        LET allowed == resp.actor = resp.owner \/ resp.admin
            stored == resp.id \in ContentIds(resp.op)
        IN /\ resp.status = 200 => allowed /\ ~stored
           /\ ~allowed => resp.status = 403 /\ stored
           /\ allowed => resp.status = 200 \/ (resp.status = 500 /\ ~stored)

C3_AdminDeletedOthersRecord ==
    /\ resp.op \in DeleteOps /\ resp.found
    /\ resp.admin /\ resp.actor # resp.owner /\ resp.status = 200

\* C5: no request removes the role that is named ADMIN: whoever asks, a
\* holder of ADMIN included, the role named ADMIN is still stored after
\* every step.
C5_AdminRoleNeverDeleted ==
    [][\A x \in roles :
          x.name = "ADMIN" => \E y \in roles' : y.id = x.id]_vars

\* C6: once a role named ADMIN is stored, a role named ADMIN is stored in
\* every later state.
C6_AdminRoleStays ==
    [][(\E x \in roles : x.name = "ADMIN")
         => (\E x \in roles' : x.name = "ADMIN")]_vars

\* C7: no two Posts share (slug, authorId) and no two Projects share
\* (slug, userId), whatever the interleaving of create and updateById.
C7_SlugUniquePerOwner ==
    /\ \A p, q \in posts :
          (p.slug = q.slug /\ p.authorId = q.authorId) => p = q
    /\ \A p, q \in projects :
          (p.slug = q.slug /\ p.userId = q.userId) => p = q

C7_RacingInsertRejected ==
    /\ resp.op \in {"posts.create", "projects.create"}
    /\ resp.status = 500

\* C2 as stated: an updateById of an existing Account succeeds only for the
\* account itself; any other principal, an ADMIN included, gets 403.
C2_UpdateIsSelfOnly ==
    (resp.op = "users.updateById" /\ resp.found) =>
        /\ resp.status = 200 => resp.actor = resp.owner
        /\ resp.actor # resp.owner => resp.status = 403

\* C2 as amended: an updateById of an existing Account succeeds only for
\* the account itself or a principal holding ADMIN; a different principal
\* without ADMIN gets 403 Forbidden.
C2_UpdateIsSelfOrAdmin ==
    (resp.op = "users.updateById" /\ resp.found) =>
        /\ resp.status = 200 => resp.actor = resp.owner \/ resp.admin
        /\ (resp.actor # resp.owner /\ ~resp.admin) => resp.status = 403

C2_AdminUpdatedOtherAccount ==
    /\ resp.op = "users.updateById" /\ resp.found
    /\ resp.admin /\ resp.actor # resp.owner /\ resp.status = 200

\* C4 as stated: deleting an existing Account succeeds exactly for the
\* account itself and for a principal holding ADMIN; nobody else gets
\* through, and neither of the two is refused.
C4_DeleteIsSelfOrAdmin ==
    (resp.op = "users.deleteById" /\ resp.found) =>
        LET allowed == resp.actor = resp.owner \/ resp.admin
        IN /\ resp.status = 200 => allowed
           /\ ~allowed => resp.status = 403
           /\ allowed => resp.status # 403

\* C4 as amended: deleting an existing Account succeeds only for a
\* principal holding ADMIN; a principal without ADMIN gets 403 Forbidden,
\* on its own account too, and the account stays stored.
C4_DeleteIsAdminOnly ==
    (resp.op = "users.deleteById" /\ resp.found) =>
        LET stored == \E x \in users : x.id = resp.id
        IN /\ resp.status = 200 => resp.admin /\ ~stored
           /\ ~resp.admin => resp.status = 403 /\ stored

C4_OwnAccountDeleteForbidden ==
    /\ resp.op = "users.deleteById" /\ resp.found
    /\ ~resp.admin /\ resp.actor = resp.owner /\ resp.status = 403

\* C8: no two Accounts share a username and no two share an email,
\* whatever the interleaving of create and updateById.
C8_UsernameEmailUnique ==
    \A a, b \in users :
        (a.username = b.username \/ a.email = b.email) => a = b

C8_RacingCreateRejected ==
    resp.op = "users.create" /\ resp.status = 500

\* C9: no Post or Project of a list response carries the hash of the
\* nested Account.
C9_NestedAccountWithoutHash ==
    resp.op \in {"posts.get", "projects.get"} =>
        /\ "author.hash" \notin resp.body
        /\ "user.hash" \notin resp.body

\* C10: no Account representation in the response of an Accounts operation
\* carries the hash field.
C10_AccountWithoutHash ==
    resp.op \in {"users.create", "users.get", "users.updateById",
                 "users.deleteById"} =>
        "hash" \notin resp.body

AdminOnlyOps == {"roles.updateById", "roles.deleteById", "users.deleteById"}

TargetOps ==
    UpdateOps \cup DeleteOps \cup AdminOnlyOps \cup {"users.updateById"}

\* C11 as stated: an update or delete whose target id does not exist ends
\* with 404 and never with 403, whoever the principal is.
C11_NotFoundBeforeForbidden ==
    (resp.op \in TargetOps /\ ~resp.found) => resp.status = 404

\* C11 as amended: an update or delete whose target id does not exist ends
\* with 404 for every principal the role guard of the route admits; on an
\* admin-only route a principal without ADMIN gets 403 from the guard,
\* whether the target exists or not.
C11_NotFoundBehindGuard ==
    (resp.op \in TargetOps /\ ~resp.found) =>
        IF resp.op \in AdminOnlyOps /\ ~resp.admin
        THEN resp.status = 403
        ELSE resp.status = 404

C11_MissingTargetOfOthersUpdate ==
    /\ resp.op \in UpdateOps \cup {"users.updateById"} /\ ~resp.found
    /\ ~resp.admin /\ resp.status = 404

ProtectedRoutes == Routes \ PublicRoutes

BadTokenKinds == {"missing", "malformed", "expired", "badsig"}

\* C12: on a route that is not public a request gets past JwtAuthGuard,
\* and its Service method is called, only with a token that verifies, and
\* the principal is the account of the token; with a missing, malformed,
\* expired or wrongly signed token the request ends with 401.
C12_ServiceOnlyBehindToken ==
    /\ \A r \in DOMAIN reqs :
          reqs[r].op \in ProtectedRoutes =>
              /\ reqs[r].token.kind = "valid"
              /\ reqs[r].pc # "validate" =>
                     reqs[r].reqUser.id = reqs[r].token.userId
    /\ (resp.op \in ProtectedRoutes /\ resp.name \in BadTokenKinds) =>
          resp.status = 401
    /\ (resp.op \in ProtectedRoutes /\ resp.status = 200) =>
          resp.name \in {"valid", NoValue} /\ resp.actor # 0

C12_ExpiredTokenRejected ==
    /\ resp.op \in ProtectedRoutes /\ resp.name = "expired"
    /\ resp.status = 401

\* The account of the token is stored and active.
Usable(token) == \E x \in users : x.id = token.userId /\ x.isActive

\* C13: once an account is deleted or disabled, a request with a token of
\* that account whose authentication completes afterwards ends there with
\* 401: it reaches neither the guard of the route nor a Service method.
C13_StaleTokenRejected ==
    [][\A r \in DOMAIN reqs :
          (reqs[r].pc = "validate" /\ reqs'[r] # reqs[r]
              /\ ~Usable(reqs[r].token)) =>
                 /\ reqs'[r] = Idle
                 /\ resp'.status = 401 /\ resp'.op = reqs[r].op]_vars

C13_TokenOfDeletedAccountRejected ==
    /\ resp.op \in ProtectedRoutes /\ resp.name = "valid"
    /\ resp.status = 401 /\ ~resp.found
    /\ resp.actor \notin {x.id : x \in users}

\* C14: on an admin-only route the Service method is called only from the
\* role guard and only for a principal that is stored holding ADMIN; for
\* any other authenticated principal the guard answers 403.
C14_AdminRoutesNeedAdmin ==
    [][\A r \in DOMAIN reqs :
          LET q == reqs[r]
              holds == "ADMIN" \in RoleNamesOf(q.reqUser.id)
              called ==
                  \/ reqs'[r].pc = "find"
                  \/ reqs'[r] = Idle /\ resp'.op = q.op /\ resp'.status = 200
          IN (q.op \in AdminRoutes /\ q.pc \in {"validate", "guard"}
                 /\ reqs'[r] # q) =>
                 /\ called => q.pc = "guard" /\ holds
                 /\ (q.pc = "guard" /\ ~holds) =>
                        reqs'[r] = Idle /\ resp'.status = 403]_vars

C14_NonAdminForbidden ==
    /\ resp.op \in AdminRoutes /\ resp.name = "valid"
    /\ resp.status = 403 /\ ~resp.admin

\* C15: the principal that authentication hands on carries exactly the
\* roles the account holds in the store at that moment.
C15_PrincipalCarriesRoles ==
    [][\A r \in DOMAIN reqs :
          LET q == reqs[r]
              uid == q.token.userId
          IN (q.pc = "validate" /\ reqs'[r] # q) =>
                 /\ reqs'[r].pc \in {"guard", "find"} =>
                        reqs'[r].reqUser =
                            [id |-> uid, roles |-> RoleNamesOf(uid)]
                 /\ (reqs'[r] = Idle /\ resp'.status = 200) =>
                        resp'.admin = ("ADMIN" \in RoleNamesOf(uid))]_vars

\* C16: a create of a Post or Project whose (slug, owner) is already stored
\* is answered 400 with the slug in the message and stores nothing; a create
\* whose slug is stored only under another owner is not rejected, and its
\* insert stores the record under the caller and is answered 201.
C16_DuplicateSlugRejected ==
    [][\A r \in Slots, u \in UserIds, slug \in Slugs :
          LET postTaken == \E p \in posts : p.slug = slug /\ p.authorId = u
              projectTaken ==
                  \E p \in projects : p.slug = slug /\ p.userId = u
          IN /\ (PostsCreateFind(r, u, slug) /\ postTaken) =>
                    /\ resp'.op = "posts.create" /\ resp'.status = 400
                    /\ resp'.name = slug /\ resp'.actor = u
                    /\ reqs'[r] = Idle /\ posts' = posts
             /\ (PostsCreateFind(r, u, slug) /\ ~postTaken) =>
                    reqs'[r].pc = "create" /\ resp' = resp
             /\ (PostsCreateInsert(r) /\ reqs[r].slug = slug
                    /\ reqs[r].reqUser.id = u /\ ~postTaken) =>
                    /\ resp'.status = 201 /\ resp'.owner = u
                    /\ \E p \in posts' \ posts :
                          p.slug = slug /\ p.authorId = u
             /\ (ProjectsCreateFind(r, u, slug) /\ projectTaken) =>
                    /\ resp'.op = "projects.create" /\ resp'.status = 400
                    /\ resp'.name = slug /\ resp'.actor = u
                    /\ reqs'[r] = Idle /\ projects' = projects
             /\ (ProjectsCreateFind(r, u, slug) /\ ~projectTaken) =>
                    reqs'[r].pc = "create" /\ resp' = resp
             /\ (ProjectsCreateInsert(r) /\ reqs[r].slug = slug
                    /\ reqs[r].reqUser.id = u /\ ~projectTaken) =>
                    /\ resp'.status = 201 /\ resp'.owner = u
                    /\ \E p \in projects' \ projects :
                          p.slug = slug /\ p.userId = u]_vars

\* A create is answered 400 for a slug the caller already has, while
\* another owner holds a record with the same slug.
C16_SameSlugUnderTwoOwners ==
    /\ resp.op \in {"posts.create", "projects.create"}
    /\ resp.status = 400
    /\ \/ \E p, q \in posts :
             /\ p.slug = resp.name /\ p.authorId = resp.actor
             /\ q.slug = resp.name /\ q.authorId # resp.actor
       \/ \E p, q \in projects :
             /\ p.slug = resp.name /\ p.userId = resp.actor
             /\ q.slug = resp.name /\ q.userId # resp.actor

\* C17: an updateById of a Post or Project by its owner looks for the new
\* (slug, owner) exactly when the payload has a slug that differs from the
\* slug of the record as read; a request whose payload omits the slug or
\* repeats that slug is never answered 400.
C17_SlugCheckedOnlyOnChange ==
    [][\A r \in Slots :
          LET q == reqs[r]
              n == reqs'[r]
          IN /\ (q.op = "idle" /\ n.op \in UpdateOps) =>
                    (n.pc = "findFirst") =
                        (n.slug # NoSlug /\ n.slug # TheRow(n.entity).slug)
             /\ (q.op \in UpdateOps /\ n # q
                    /\ (q.slug = NoSlug \/ q.slug = TheRow(q.entity).slug)) =>
                    /\ q.pc = "update" /\ n = Idle
                    /\ resp'.op = q.op /\ resp'.status # 400]_vars

\* An owner's update that repeats the slug of the record has skipped the
\* look-up and is about to write.
C17_RepeatedSlugSkipsCheck ==
    \E r \in Slots :
        /\ reqs[r].op \in UpdateOps /\ reqs[r].pc = "update"
        /\ reqs[r].slug = TheRow(reqs[r].entity).slug

\* C18: a create of an account whose username and whose email are both held
\* by stored accounts is answered 400 'Username is not available'.
C18_UsernameCollisionFirst ==
    [][\A r \in Slots, username \in Usernames, email \in Emails :
          (/\ UsersCreateFind(r, username, email)
           /\ \E x \in users : x.username = username
           /\ \E x \in users : x.email = email) =>
              /\ resp'.op = "users.create" /\ resp'.status = 400
              /\ resp'.name = "Username is not available"]_vars

\* C19: a create of a role with a name another role holds, and an update
\* that renames a role to such a name, are answered 400 and leave the stored
\* roles as they were.
C19_DuplicateRoleNameIsConflict ==
    [][\A r \in DOMAIN reqs :
          LET q == reqs[r]
              held == \E x \in roles : x.id # q.id /\ x.name = q.name
          IN ((RolesCreateInsert(r) \/ RolesUpdateWrite(r)) /\ held) =>
                 /\ resp'.op = q.op /\ resp'.status = 400
                 /\ roles' = roles]_vars

\* C20: a paginated list query with page < 1 or pageSize < 1 is answered
\* 400, on every resource, whether it comes through the route or goes to the
\* get method of the Service directly.
C20_InvalidPageIsRejected ==
    (resp.op \in ListOps /\ resp.name = "invalid") => resp.status = 400

\* C21: a paginated query with page >= 1 and pageSize >= 1 is answered
\* 200; findMany got skip (page - 1) * pageSize and take pageSize; the body
\* repeats page and pageSize, and pageCount is the least number of pages of
\* pageSize that hold total items.
C21_SkipTakeAndPageCount ==
    (resp.op \in ListOps /\ resp.name = "valid") =>
        LET l == resp.list
        IN /\ resp.status = 200
           /\ l.skip = (l.asked.page - 1) * l.asked.pageSize
           /\ l.take = l.asked.pageSize
           /\ l.page = l.asked.page /\ l.pageSize = l.asked.pageSize
           /\ l.pageCount * l.pageSize >= l.total
           /\ (l.pageCount - 1) * l.pageSize < l.total

\* The second page of three records in pages of two.
C21_LastPageNotFull ==
    /\ resp.op \in ListOps /\ resp.name = "valid"
    /\ resp.list.asked.page = 2 /\ resp.list.total = 3
    /\ resp.list.pageSize = 2 /\ Len(resp.list.items) = 1
    /\ resp.list.pageCount = 2

\* The rows a list query of op matches.
ListRows(op, asked) ==
    IF op = "posts.get" THEN PostsWhere(asked)
    ELSE IF op = "projects.get" THEN ProjectsWhere(asked)
    ELSE IF op = "users.get" THEN UsersWhere(asked)
    ELSE RolesWhere(asked)

\* C22: on a store that does not change, page 1 and then page 2 of the same
\* query with the same pageSize N have no item in common, and page 1
\* followed by page 2 is the first 2N items of the unpaginated result of
\* that query.
C22_PagesPartitionTheList ==
    [][LET a == resp.list.asked
           b == resp'.list.asked
           first == resp.list.items
           second == resp'.list.items
           both == first \o second
           plain == [a EXCEPT !.withPagination = FALSE]
       IN (/\ resp.op \in ListOps /\ resp'.op = resp.op
           /\ resp.name = "valid" /\ resp'.name = "valid"
           /\ a.page = 1 /\ b = [a EXCEPT !.page = 2]) =>
              /\ \A i \in DOMAIN first, j \in DOMAIN second :
                    first[i] # second[j]
              /\ \E s \in OrderBy(ListRows(resp.op, a), plain) :
                    LET n == IF Len(s) < 2 * a.pageSize THEN Len(s)
                             ELSE 2 * a.pageSize
                    IN both = [i \in 1..n |-> s[i].id]]_vars

\* C23: an updatePassword of an existing Account succeeds only for the
\* account itself; any other principal, an ADMIN included, gets 403
\* Forbidden.
C23_PasswordIsSelfOnly ==
    (resp.op = "users.updatePassword" /\ resp.found) =>
        /\ resp.status = 200 => resp.actor = resp.owner
        /\ resp.actor # resp.owner => resp.status = 403

C23_AdminPasswordUpdateForbidden ==
    /\ resp.op = "users.updatePassword" /\ resp.found
    /\ resp.admin /\ resp.actor # resp.owner /\ resp.status = 403
    /\ \E x \in users : x.hash = Hash("pw2")

\* C24: the write of a successful updateById of a Post or Project leaves
\* the id and the owner of the record as they are stored, and the slug too
\* when the payload has no slug.
C24_OnlyPayloadFieldsChange ==
    [][\A r \in Slots :
          LET q == reqs[r]
          IN /\ (PostsUpdateWrite(r) /\ resp'.status = 200) =>
                    LET before == TheRow(findUnique(posts, q.id))
                        after == TheRow(findUnique(posts', q.id))
                    IN /\ after.id = before.id
                       /\ after.authorId = before.authorId
                       /\ q.slug = NoSlug => after.slug = before.slug
             /\ (ProjectsUpdateWrite(r) /\ resp'.status = 200) =>
                    LET before == TheRow(findUnique(projects, q.id))
                        after == TheRow(findUnique(projects', q.id))
                    IN /\ after.id = before.id
                       /\ after.userId = before.userId
                       /\ q.slug = NoSlug => after.slug = before.slug]_vars

\* C25 as stated: GET /posts/check-slug is public: a request without a
\* token is answered 200 with { isAvailable }.
C25_CheckSlugIsPublic ==
    (resp.op = "posts.checkSlug" /\ resp.name = "missing") =>
        resp.status = 200 /\ "isAvailable" \in resp.body

\* C25 as amended: GET /posts/check-slug is a protected route: a request
\* without a token is rejected with 401, and { isAvailable } is answered
\* only to a request with a valid token, for the slugs of its own account.
C25_CheckSlugNeedsToken ==
    resp.op = "posts.checkSlug" =>
        /\ resp.name = "missing" => resp.status = 401
        /\ resp.status = 200 =>
              /\ resp.name = "valid" /\ "isAvailable" \in resp.body
              /\ resp.actor # 0 /\ resp.owner = resp.actor

C25_CheckSlugWithoutToken ==
    /\ resp.op = "posts.checkSlug" /\ resp.name = "missing"
    /\ resp.status = 401 /\ resp.body = {}

\* C26: a request that came in after a completed removeRole took ADMIN
\* from its account never gets past the guard of an admin-only route and
\* never gets to the delete of a Post of another owner, whatever token it
\* carries.
C26_RevokedAdminStaysOut ==
    \A r \in Slots :
        LET q == reqs[r]
        IN (q.op # "idle" /\ <<q.token.userId, 1>> \in SeedUserRoles
                /\ ~q.wasAdmin) =>
              /\ q.op \in AdminRoutes => q.pc \in {"validate", "guard"}
              /\ (q.op = "posts.deleteById" /\ q.pc = "delete") =>
                    TheRow(q.entity).authorId = q.reqUser.id

C26_RevokedAdminForbidden ==
    /\ resp.op = "users.deleteById" /\ resp.status = 403
    /\ resp.actor = 1 /\ resp.name = "valid"
    /\ \E x \in users : x.id = 1 /\ x.isActive
    /\ <<1, 1>> \notin userRoles

\* C27: a create of a Post, Project or account that loses the insert to a
\* concurrent create of the same (slug, owner), username or email ends
\* with 400: no create ends with 500.
C27_LosingCreateIsConflict ==
    resp.op \in {"posts.create", "projects.create", "users.create"} =>
        resp.status \in {201, 400}

\* The smaller and the larger of two integers.
Min(a, b) == IF a <= b THEN a ELSE b

Max(a, b) == IF a >= b THEN a ELSE b

\* C28: every paginated response has
\* items.length = min(pageSize, max(0, total - (page - 1) * pageSize)),
\* also when Posts are created or deleted while the list query runs.
C28_ItemsMatchTotal ==
    (resp.op = "posts.get" /\ resp.status = 200
         /\ resp.list.asked.withPagination) =>
        Len(resp.list.items) =
            Min(resp.list.pageSize,
                Max(0, resp.list.total
                          - (resp.list.page - 1) * resp.list.pageSize))

\* Some account of the store is joined to a role named ADMIN.
SomeAdmin ==
    \E x \in users, ro \in roles :
        ro.name = "ADMIN" /\ <<x.id, ro.id>> \in userRoles

\* C29: once an account holds ADMIN, some account holds ADMIN in every
\* later state, whatever removeRole and account deleteById requests run.
C29_SomeAdminRemains == [][SomeAdmin => SomeAdmin']_vars

\* C30: of two concurrent deleteById requests for one Post or Project,
\* both allowed to delete it, one succeeds and the other ends with 404: a
\* delete that found its target and was allowed ends with 200 or, the
\* target gone meanwhile, with 404.
C30_LosingDeleteIsNotFound ==
    (resp.op \in {"posts.deleteById", "projects.deleteById"}
         /\ resp.found /\ resp.status # 403) =>
        resp.status \in {200, 404}

====
